---- MODULE Spec2Model ----
(***************************************************************************)
(* A model of tuwunel's sliding-sync engine (src/api/client/sync/v5.rs)    *)
(* and of its typing-indicator registry (src/service/rooms/typing/mod.rs). *)
(*                                                                         *)
(* Specifications                                                          *)
(*   Spec        one sync request at a time on a device, step by step,     *)
(*               with to-device, timeline, account-data and receipt        *)
(*               traffic around it.                                        *)
(*   SpecWait    the same request with a fair timer, for the long poll.    *)
(*   SpecTyping  the typing registry: concurrent typing_add,               *)
(*               typing_remove and last_typing_update (typings_maintain)   *)
(*               calls, one step per lock acquisition / await.             *)
(*   SpecE2ee    collect_e2ee over the membership and key states of the    *)
(*               requester's rooms.                                        *)
(*   SpecTypingSync  the typing registry with collect_typing_events        *)
(*               reading it.                                               *)
(*   SpecHeroes  the heroes and the fallback name process_rooms gives a    *)
(*               room, over membership tables and member lookups.          *)
(*   SpecOverlap two sync requests of the device in flight at once.        *)
(*   SpecNotify  wait_for_update on the registry's broadcast channel, next *)
(*               to one task calling the registry; the waiting task is     *)
(*               scheduled fairly.                                         *)
(***************************************************************************)
EXTENDS Integers, Sequences, FiniteSets, TLC

\* ------------------------------------------------------------------ bounds
\* The counter source is capped: the typing registry allocates no count above
\* MaxTypingCount.
MaxTypingCount == 2
\* ... and the sync requests and their environment none above MaxCount.
MaxCount == 4
\* The wall clock runs from 0 to MaxTime (milliseconds since the epoch).
MaxTime == 2

\* ------------------------------------------------------- partial-map helpers
\* BTreeMap::insert
MapInsert(m, k, v) == [x \in DOMAIN m \cup {k} |-> IF x = k THEN v ELSE m[x]]
\* BTreeMap::remove
MapRemove(m, k) == [x \in DOMAIN m \ {k} |-> m[x]]
EmptyMap == [x \in {} |-> 0]

\* ===========================================================================
\* Typing registry  (src/service/rooms/typing/mod.rs)
\* ===========================================================================
TRooms == {"r1", "r2"}
\* alice and carol are local to this server, bob is remote
\* (globals.user_is_local)
TUsers == {"alice", "bob", "carol"}
LocalUsers == {"alice", "carol"}
\* the order of OwnedUserId, in which a BTreeMap iterates its keys
UserOrder == <<"alice", "bob", "carol">>
user_is_local(u) == u \in LocalUsers
\* users.user_is_ignored(typing_user, sender_user): "you" ignores bob
Requesters == {"me", "you"}
user_is_ignored(typing_user, sender_user) ==
    sender_user = "you" /\ typing_user = "bob"

\* the (user, room) pairs the registry is called with
TypingInputs == {<<"alice", "r1">>, <<"carol", "r1">>, <<"bob", "r2">>}

TProcs == {"t1", "t2"}
NoProc == "none"
\* timeouts a caller may pass to typing_add: one the clock passes, one it
\* never reaches
Timeouts == {1, MaxTime + 1}

VARIABLES
    counter,             \* globals: the last count next_count() issued
    now,                 \* wall clock, utils::millis_since_unix_epoch()
    typing,              \* Service.typing: room -> (user -> timeout)
    last_typing_update,  \* Service.last_typing_update: room -> count
    typing_wlock,        \* the task holding typing's write guard across awaits
    allow_outgoing_typing, \* server.config.allow_outgoing_typing
    edus,                \* the typing EDUs sending.send_edu_room was called with
    tp,                  \* one record per registry task: its call and position
    receiver,            \* the wait_for_update call: its subscription to
                         \* typing_update_sender and what it has not read yet
    connections,         \* sync: the snake-sync connection cache, by conn_id
    to_device,           \* users: the device's queued to-device events (counts)
    pdus,                \* timeline: room -> counts of its events
    room_account_data,   \* account_data: room -> counts of its changes
    global_account_data, \* account_data: counts of the global changes
    receipts,            \* read_receipt: room -> counts of its receipts
    req,                 \* one record per sync request task
    last_pos,            \* history: conn_id -> greatest pos returned so far
    delivered,           \* history: to-device event -> least pos of a
                         \* response that returned it
    e2ee_world,          \* what collect_e2ee reads: room state snapshots,
                         \* memberships and key changes since the watermark
    e2ee_response,       \* the E2EE part collect_e2ee returned
    typing_response,     \* the typing part collect_typing_events returned
    hero_world,          \* what process_rooms reads of a room for its name:
                         \* the explicit name, the membership table and the
                         \* member lookups that fail
    hero_response        \* the heroes and the name process_rooms gave the room

sync_vars == <<connections, to_device, pdus, room_account_data,
               global_account_data, receipts, req, last_pos, delivered>>
typing_vars == <<now, typing, last_typing_update, typing_wlock,
                 allow_outgoing_typing, edus, tp, receiver>>
ext_vars == <<e2ee_world, e2ee_response, typing_response, hero_world,
              hero_response>>
vars == <<counter, typing_vars, sync_vars, ext_vars>>

TIdle == [pc |-> "idle", op |-> "none", user |-> "none", room |-> "none",
          was_typing |-> FALSE, removable |-> {}, result |-> "none"]

\* a returned call: what it was and what it returned
TDone(t, result) == [TIdle EXCEPT !.pc = "done", !.op = tp[t].op,
                        !.was_typing = tp[t].was_typing, !.result = result]

\* globals.next_count(): the next value of the strictly increasing counter
next_count(c) == c + 1

\* last_typing_update.get(room).copied().unwrap_or(0)
LastUpdateOf(ltu, room) == IF room \in DOMAIN ltu THEN ltu[room] ELSE 0

\* typing.entry(room).or_default()
RoomTyping(ty, room) == IF room \in DOMAIN ty THEN ty[room] ELSE EmptyMap

\* the users of a room's typing map (absent room: none)
TypingUsers(ty, room) == DOMAIN RoomTyping(ty, room)

\* A bump that forgets the cursor of a room that already has one.
BumpLastTypingUpdateDropping(ltu, room, c) ==
    IF room \in DOMAIN ltu THEN MapRemove(ltu, room) ELSE MapInsert(ltu, room, c)
\* last_typing_update.write().await.insert(room, next_count()?)
BumpLastTypingUpdate(ltu, room, c) == MapInsert(ltu, room, c)

\* typing_users_for_user: the room's keys minus the users the sender ignores
typing_users_for_user(ty, room, sender_user) ==
    {u \in TypingUsers(ty, room) : ~user_is_ignored(u, sender_user)}

\* federation_send's hand-off: the EDU {room_id, user_id, typing}
TypingEdu(room, user, is_typing) ==
    [room_id |-> room, user_id |-> user, typing |-> is_typing]

TCallable(t) == tp[t].pc \in {"idle", "done"}

\* lines 83, 116, 175 and 250: the hand-off is made for a local user when
\* outgoing typing is allowed
FederationSends(user, allowed) == user_is_local(user) /\ allowed

\* lines 84-85, 117-118, 176 and 260-263: send_edu_room's error is the call's
HandOffResult(queued) == IF queued THEN "ok" ELSE "err"

\* ------------------------------------------------- typing_update_sender
\* broadcast::channel(100) (line 44)
ChannelCapacity == 100
\* no wait_for_update call has subscribed
NoReceiver == [pc |-> "none", room |-> "none", unread |-> << >>,
               lagged |-> FALSE, woke |-> "none", sent |-> 0, heard |-> {}]
\* typing_update_sender.subscribe() (line 125): the receiver sees what is
\* sent from now on.  `sent` and `heard` are history: how many notifications
\* were broadcast since the subscription, and for which rooms.
subscribe(room) == [NoReceiver EXCEPT !.pc = "waiting", !.room = room]
\* typing_update_sender.send(room) (lines 74-80, 107-113, 165-171): without
\* a receiver the send fails and the failure is ignored; a receiver that has
\* ChannelCapacity values unread loses the oldest and is marked as lagging
broadcast_send(rc, room) ==
    IF rc.pc # "waiting" THEN rc
    ELSE [rc EXCEPT
            !.unread = IF Len(@) < ChannelCapacity THEN Append(@, room)
                       ELSE Append(Tail(@), room),
            !.lagged = @ \/ Len(rc.unread) >= ChannelCapacity,
            !.sent = @ + 1,
            !.heard = @ \cup {room}]
\* A loop that any room's notification ends.
WakesAny(next, room) == TRUE
\* lines 127-129: the notification of the awaited room ends the loop
Wakes(next, room) == next = room

\* The counter source is capped MaxTypingCount counts above the count the
\* registry's run starts at: 0, or the count after ChannelCapacity - 1
\* notifications.
StartCount == IF counter >= ChannelCapacity - 1 THEN ChannelCapacity - 1 ELSE 0
TypingCountCap == StartCount + MaxTypingCount

\* typing_add, up to the release of typing's write guard (lines 62-67)
TypingAddCall(t, u, r, timeout) ==
    /\ TCallable(t)
    /\ typing_wlock = NoProc
    /\ typing' = MapInsert(typing, r, MapInsert(RoomTyping(typing, r), u, timeout))
    /\ tp' = [tp EXCEPT ![t] = [TIdle EXCEPT !.pc = "stamp", !.op = "add",
                 !.user = u, !.room = r,
                 !.was_typing = u \in TypingUsers(typing, r)]]
    /\ UNCHANGED <<counter, now, last_typing_update, typing_wlock,
                   allow_outgoing_typing, edus, receiver,
                   sync_vars, ext_vars>>

\* typing_remove, up to the release of typing's write guard (lines 95-100)
TypingRemoveCall(t, u, r) ==
    /\ TCallable(t)
    /\ typing_wlock = NoProc
    /\ typing' = MapInsert(typing, r, MapRemove(RoomTyping(typing, r), u))
    /\ tp' = [tp EXCEPT ![t] = [TIdle EXCEPT !.pc = "stamp", !.op = "remove",
                 !.user = u, !.room = r,
                 !.was_typing = u \in TypingUsers(typing, r)]]
    /\ UNCHANGED <<counter, now, last_typing_update, typing_wlock,
                   allow_outgoing_typing, edus, receiver,
                   sync_vars, ext_vars>>

\* typing_add / typing_remove: the cursor bump and the broadcast
\* (lines 69-80, 102-113); the count is allocated under the write guard
TypingStamp(t) ==
    /\ tp[t].pc = "stamp"
    /\ counter < TypingCountCap
    /\ counter' = next_count(counter)
    /\ last_typing_update' =
          BumpLastTypingUpdate(last_typing_update, tp[t].room, next_count(counter))
    /\ receiver' = broadcast_send(receiver, tp[t].room)
    /\ tp' = [tp EXCEPT ![t].pc = "fed"]
    /\ UNCHANGED <<now, typing, typing_wlock, allow_outgoing_typing, edus, sync_vars, ext_vars>>

\* typing_add / typing_remove: the federation hand-off and the return
\* (lines 82-88, 115-121 and federation_send, lines 239-266)
TypingFederate(t) ==
    /\ tp[t].pc = "fed"
    /\ IF FederationSends(tp[t].user, allow_outgoing_typing)
       THEN \E queued \in BOOLEAN :
              /\ edus' = edus \cup {TypingEdu(tp[t].room, tp[t].user,
                                              tp[t].op = "add")}
              /\ tp' = [tp EXCEPT ![t] =
                           TDone(t, HandOffResult(queued))]
       ELSE /\ edus' = edus
            /\ tp' = [tp EXCEPT ![t] = TDone(t, "ok")]
    /\ UNCHANGED <<counter, now, typing, last_typing_update, typing_wlock,
                   allow_outgoing_typing, receiver,
                   sync_vars, ext_vars>>

\* last_typing_update -> typings_maintain: the scan under the read guard
\* (lines 135-149); with nothing to remove the call returns the cursor
\* (lines 140-142, 151, 187-193)
MaintainScan(t, r) ==
    /\ TCallable(t)
    /\ typing_wlock = NoProc
    /\ LET removable == IF r \in DOMAIN typing
                        THEN {u \in DOMAIN typing[r] : typing[r][u] < now}
                        ELSE {}
       IN tp' = [tp EXCEPT ![t] =
                   IF removable = {}
                   THEN [TIdle EXCEPT !.pc = "done", !.op = "maintain",
                            !.result = "ok"]
                   ELSE [TIdle EXCEPT !.pc = "m_remove", !.op = "maintain",
                            !.room = r, !.removable = removable]]
    /\ UNCHANGED <<counter, now, typing, last_typing_update, typing_wlock,
                   allow_outgoing_typing, edus, receiver,
                   sync_vars, ext_vars>>

\* typings_maintain: the removal under the write guard (lines 152-157); the
\* guard lives to the end of the block
MaintainRemove(t) ==
    /\ tp[t].pc = "m_remove"
    /\ typing_wlock = NoProc
    /\ typing_wlock' = t
    /\ typing' = MapInsert(typing, tp[t].room,
                     [u \in TypingUsers(typing, tp[t].room) \ tp[t].removable
                        |-> typing[tp[t].room][u]])
    /\ tp' = [tp EXCEPT ![t].pc = "m_stamp"]
    /\ UNCHANGED <<counter, now, last_typing_update, allow_outgoing_typing, edus, receiver,
                   sync_vars, ext_vars>>

\* typings_maintain: the cursor bump and the broadcast (lines 160-171)
MaintainStamp(t) ==
    /\ tp[t].pc = "m_stamp"
    /\ counter < TypingCountCap
    /\ counter' = next_count(counter)
    /\ last_typing_update' =
          BumpLastTypingUpdate(last_typing_update, tp[t].room, next_count(counter))
    /\ receiver' = broadcast_send(receiver, tp[t].room)
    /\ tp' = [tp EXCEPT ![t].pc = "m_fed"]
    /\ UNCHANGED <<now, typing, typing_wlock, allow_outgoing_typing, edus, sync_vars, ext_vars>>

\* typings_maintain: one stop signal per removed local user, in key order;
\* the first hand-off the queue fails ends the loop and returns the error
\* (lines 174-178); then the write guard is dropped and last_typing_update
\* reads the cursor (lines 186-193).  `failing` is the position of the
\* hand-off that fails (0: none does).
MaintainFederate(t) ==
    /\ tp[t].pc = "m_fed"
    /\ LET locals == SelectSeq(UserOrder,
                        LAMBDA u : u \in tp[t].removable
                                   /\ FederationSends(u, allow_outgoing_typing))
       IN \E failing \in 0..Len(locals) :
            LET tried == IF failing = 0 THEN Len(locals) ELSE failing
            IN /\ edus' = edus \cup {TypingEdu(tp[t].room, locals[i], FALSE)
                                     : i \in 1..tried}
               /\ tp' = [tp EXCEPT ![t] = TDone(t, HandOffResult(failing = 0))]
    /\ typing_wlock' = NoProc
    /\ UNCHANGED <<counter, now, typing, last_typing_update, allow_outgoing_typing, receiver,
                   sync_vars, ext_vars>>

\* the wall clock advances
Tick ==
    /\ now < MaxTime
    /\ now' = now + 1
    /\ UNCHANGED <<counter, typing, last_typing_update, typing_wlock,
                   allow_outgoing_typing, edus, tp, receiver,
                   sync_vars, ext_vars>>

\* wait_for_update: the subscription (line 125)
Subscribe(room) ==
    /\ receiver.pc = "none"
    /\ receiver' = subscribe(room)
    /\ UNCHANGED <<counter, now, typing, last_typing_update, typing_wlock,
                   allow_outgoing_typing, edus, tp, sync_vars, ext_vars>>

\* wait_for_update: one turn of `while let Ok(next) = receiver.recv().await`
\* (lines 126-130).  recv() of a lagging receiver is Err(Lagged), which ends
\* the loop as a notification of the room does; with nothing unread it pends.
Recv ==
    /\ receiver.pc = "waiting"
    /\ receiver.lagged \/ receiver.unread # << >>
    /\ receiver' =
          IF receiver.lagged
          THEN [receiver EXCEPT !.pc = "returned", !.woke = "lagged"]
          ELSE IF Wakes(Head(receiver.unread), receiver.room)
          THEN [receiver EXCEPT !.pc = "returned", !.woke = "notified",
                                !.unread = Tail(@)]
          ELSE [receiver EXCEPT !.unread = Tail(@)]
    /\ UNCHANGED <<counter, now, typing, last_typing_update, typing_wlock,
                   allow_outgoing_typing, edus, tp, sync_vars, ext_vars>>

TypingInit ==
    /\ now = 0
    /\ typing = EmptyMap
    /\ last_typing_update = EmptyMap
    /\ typing_wlock = NoProc
    /\ allow_outgoing_typing \in BOOLEAN
    /\ edus = {}
    /\ tp = [t \in TProcs |-> TIdle]
    /\ receiver = NoReceiver

\* ===========================================================================
\* Sliding sync  (src/api/client/sync/v5.rs)
\* ===========================================================================
\* One user on one device; a connection is its conn_id (None: NoConn).
Absent == "none"
NoConn == "none"
ConnIds == {NoConn, "c1"}
Procs == {"p1", "p2"}

\* state_cache.rooms_joined / rooms_invited / rooms_knocked of the user
all_joined_rooms == <<"r1", "r2">>
all_invited_rooms == <<"r3">>
all_knocked_rooms == << >>
\* lines 134-137: joined, then invited, then knocked
all_rooms == all_joined_rooms \o all_invited_rooms \o all_knocked_rooms
SeqRange(s) == {s[i] : i \in DOMAIN s}
Rooms == SeqRange(all_rooms)

\* rooms.metadata: "rx" does not exist (or is disabled, or banned)
room_blocked(room) == room \notin Rooms
\* the (type, state key) pairs a request may require, and the rooms' state
NameKey == <<"m.room.name", "">>
room_state_has(room, key) == room = "r1" /\ key = NameKey
\* ignored_filter / user_is_ignored: r2's events and receipts come from a
\* user the requester ignores
from_ignored_user(room) == room = "r2"

\* ---------------------------------------------------------------- requests
\* the timeout the long poll defaults to and is capped at, in seconds
DefaultTimeout == 30
\* the wait's clock advances WaitStep seconds a step
WaitStep == 20
\* body.timeout: absent, shorter than the default, longer than the default
TimeoutInputs == {[some |-> FALSE, secs |-> 0]}
                 \cup {[some |-> TRUE, secs |-> s]
                        : s \in {DefaultTimeout \div 3, 2 * DefaultTimeout}}

\* body.pos: absent, not a number, or a number
PosAbsent == [tag |-> "absent", n |-> 0]
PosJunk == [tag |-> "junk", n |-> 0]
PosCount(n) == [tag |-> "count", n |-> n]
\* next_batch.to_string() (line 139)
to_string(n) == PosCount(n)
\* pos.and_then(|s| s.parse().ok()).unwrap_or(0) (lines 81-85)
parse_pos(pos) == IF pos.tag = "count" THEN pos.n ELSE 0

ListAll == [ranges |-> << <<1, 5>> >>, is_invite |-> Absent,
            timeline_limit |-> 150, required_state |-> {NameKey}]
ListJoined == [ranges |-> << <<0, 1>> >>, is_invite |-> "false",
               timeline_limit |-> 1, required_state |-> {}]
\* a room subscription asking for more events than the cap on a list's limit
Subscription == [timeline_limit |-> 150, required_state |-> {}]

\* the sticky part of a request body: lists, room_subscriptions and the
\* extensions' enabled flags (Absent, "true" or "false")
EmptySticky == [lists |-> EmptyMap, room_subscriptions |-> EmptyMap,
                to_device |-> Absent, account_data |-> Absent,
                typing |-> Absent, e2ee |-> Absent]
BodyLists == [EmptySticky EXCEPT !.lists = [n \in {"a"} |-> ListAll],
                 !.to_device = "true", !.e2ee = "true"]
BodySubs == [EmptySticky EXCEPT !.lists = [n \in {"a"} |-> ListJoined],
                !.room_subscriptions = [r \in {"r2", "rx"} |-> Subscription],
                !.to_device = "false", !.account_data = "true",
                !.typing = "true", !.e2ee = "false"]
SyncBodies == {EmptySticky, BodyLists, BodySubs}

Enabled(flag) == flag = "true"

\* ------------------------------------------------- connection cache (sync)
\* The cache is code of this repository outside src/: modelled from the
\* specification's section 4.1.
NewConnection == [request |-> EmptySticky, known_rooms |-> EmptyMap]
\* exists(key)
snake_connection_cached(conns, key) == key \in DOMAIN conns
\* forget(key)
forget_snake_sync_connection(conns, key) == MapRemove(conns, key)
\* lookup_or_init(key)
lookup_or_init(conns, key) == IF key \in DOMAIN conns THEN conns[key]
                              ELSE NewConnection
MergeMap(old, new) == [k \in DOMAIN old \cup DOMAIN new |->
                          IF k \in DOMAIN new THEN new[k] ELSE old[k]]
MergeFlag(old, new) == IF new = Absent THEN old ELSE new
\* merge(key, partial_request): present fields overwrite, absent ones inherit
MergeSticky(cached, body) ==
    [lists |-> MergeMap(cached.lists, body.lists),
     room_subscriptions |-> MergeMap(cached.room_subscriptions,
                                     body.room_subscriptions),
     to_device |-> MergeFlag(cached.to_device, body.to_device),
     account_data |-> MergeFlag(cached.account_data, body.account_data),
     typing |-> MergeFlag(cached.typing, body.typing),
     e2ee |-> MergeFlag(cached.e2ee, body.e2ee)]
\* update_known_rooms(key, list_name, room_ids, watermark)
update_snake_sync_known_rooms(conns, key, list, rooms, watermark) ==
    LET c == lookup_or_init(conns, key)
        old == IF list \in DOMAIN c.known_rooms THEN c.known_rooms[list]
               ELSE EmptyMap
        new == [r \in DOMAIN old \cup rooms |->
                   IF r \in rooms THEN watermark ELSE old[r]]
    IN MapInsert(conns, key,
                 [c EXCEPT !.known_rooms = MapInsert(c.known_rooms, list, new)])

\* known_rooms.get(list).and_then(|k| k.get(room)).copied().unwrap_or(0)
KnownSince(known_rooms, list, room) ==
    IF list \in DOMAIN known_rooms /\ room \in DOMAIN known_rooms[list]
    THEN known_rooms[list][room] ELSE 0

\* ------------------------------------------------------------ the route
\* The unknown-position check ignoring the conn_id.
FailsUnknownPosAnyConn(conns, globalsince, key) ==
    globalsince # 0 /\ DOMAIN conns = {}
\* lines 89-93
FailsUnknownPos(conns, globalsince, key) ==
    globalsince # 0 /\ ~snake_connection_cached(conns, key)

\* An initial sync that keeps the cached connection.
KeepOnInitial(conns, globalsince, key) == conns
\* lines 95-100
ForgetOnInitial(conns, globalsince, key) ==
    IF globalsince = 0 THEN forget_snake_sync_connection(conns, key) ELSE conns

\* A response that names the count after the one the request took.
ResponsePosAhead(next_batch, globalsince) == to_string(next_batch + 1)
\* A response that echoes the presented position.
ResponsePosEcho(next_batch, globalsince) == to_string(globalsince)
\* line 139
ResponsePos(next_batch, globalsince) == to_string(next_batch)

\* users.remove_to_device_events(user, device, until): up to the watermark
remove_to_device_events(queue, until) == {c \in queue : c > until}
\* users.get_to_device_events(user, device, None, Some(to))
get_to_device_events(queue, to) == {c \in queue : c <= to}

\* collect_to_device that acknowledges whatever the enabled flag says.
ToDeviceAfterAckAlways(queue, flag, globalsince) ==
    remove_to_device_events(queue, globalsince)
\* collect_to_device that acknowledges nothing.
ToDeviceAfterAckNone(queue, flag, globalsince) == queue
\* collect_to_device, lines 950-957: the queue after the acknowledgement
ToDeviceAfterAck(queue, flag, globalsince) ==
    IF Enabled(flag) THEN remove_to_device_events(queue, globalsince)
    ELSE queue
\* collect_to_device, lines 959-966 (Absent: None)
ToDeviceResponse(queue, flag, next_batch) ==
    IF Enabled(flag)
    THEN [present |-> TRUE, next_batch |-> to_string(next_batch),
          events |-> get_to_device_events(queue, next_batch)]
    ELSE [present |-> FALSE, next_batch |-> PosAbsent, events |-> {}]

\* collect_account_data, lines 716-730: the global changes since the watermark
AccountDataGlobal(changes, flag, globalsince) ==
    IF Enabled(flag) THEN {c \in changes : c > globalsince} ELSE {}

\* ------------------------------------------------------------ handle_lists
SetMax(S) == CHOOSE x \in S : \A y \in S : y <= x
SetMin(S) == CHOOSE x \in S : \A y \in S : x <= y
Min(a, b) == IF a <= b THEN a ELSE b
Max(a, b) == IF a >= b THEN a ELSE b

\* the cap on a list's timeline limit (line 354)
MaxTimelineLimit == 100

\* lines 306-310 (the menu's lists carry no not_room_types filter)
ActiveRooms(list) ==
    CASE list.is_invite = Absent -> all_rooms
      [] list.is_invite = "true" -> all_invited_rooms
      [] OTHER -> all_joined_rooms
\* lines 331-334: the floor forced to 0, the ceiling clamped to the length
ClampedEnd(range, n) == Max(0, Min(range[2], n))
\* Windows that start at the requested floor.
WindowRoomsFromFloor(list) ==
    UNION {{ActiveRooms(list)[i] :
              i \in (list.ranges[k][1] + 1)..ClampedEnd(list.ranges[k],
                                                       Len(ActiveRooms(list)))}
           : k \in DOMAIN list.ranges}
\* lines 336-345: the rooms of a list's ranges
WindowRooms(list) ==
    UNION {{ActiveRooms(list)[i] : i \in 1..ClampedEnd(list.ranges[k],
                                                      Len(ActiveRooms(list)))}
           : k \in DOMAIN list.ranges}
\* line 377
ListCount(list) == Len(ActiveRooms(list))

\* lines 347-372: the to-do table after every list
HandleListsTodo(lists, known_rooms) ==
    LET touching(room) == {n \in DOMAIN lists : room \in WindowRooms(lists[n])}
        touched == UNION {WindowRooms(lists[n]) : n \in DOMAIN lists}
    IN [room \in touched |->
          [required_state |->
               UNION {lists[n].required_state : n \in touching(room)},
           timeline_limit |->
               SetMax({Min(lists[n].timeline_limit, MaxTimelineLimit)
                       : n \in touching(room)}),
           roomsince |->
               SetMin({KnownSince(known_rooms, n, room) : n \in touching(room)})]]

\* lines 380-388: every list's rooms recorded at the presented watermark
RECURSIVE RecordLists(_, _, _, _, _)
RecordLists(conns, key, lists, names, globalsince) ==
    IF names = {} THEN conns
    ELSE LET n == CHOOSE x \in names : TRUE
         IN RecordLists(
              update_snake_sync_known_rooms(conns, key, n,
                                            WindowRooms(lists[n]), globalsince),
              key, lists, names \ {n}, globalsince)
\* Lists recorded one count behind the presented watermark.
HandleListsCacheBehind(conns, key, lists, globalsince) ==
    IF key = NoConn THEN conns
    ELSE RecordLists(conns, key, lists, DOMAIN lists, Max(0, globalsince - 1))
\* lines 380-388, for a request with a conn_id
HandleListsCache(conns, key, lists, globalsince) ==
    IF key = NoConn THEN conns
    ELSE RecordLists(conns, key, lists, DOMAIN lists, globalsince)

\* ----------------------------------------------------- fetch_subscriptions
\* lines 238-248: the subscriptions that pass the metadata checks
SubscribedRooms(subs) == {r \in DOMAIN subs : ~room_blocked(r)}
\* lines 250-271
FetchSubscriptionsTodo(todo, subs, known_rooms) ==
    [room \in DOMAIN todo \cup SubscribedRooms(subs) |->
       IF room \notin SubscribedRooms(subs) THEN todo[room]
       ELSE LET since == KnownSince(known_rooms, "subscriptions", room)
            IN IF room \in DOMAIN todo
               THEN [required_state |-> todo[room].required_state
                                         \cup subs[room].required_state,
                     timeline_limit |-> Max(todo[room].timeline_limit,
                                            subs[room].timeline_limit),
                     roomsince |-> Min(todo[room].roomsince, since)]
               ELSE [required_state |-> subs[room].required_state,
                     timeline_limit |-> Max(0, subs[room].timeline_limit),
                     roomsince |-> since]]
\* lines 279-287
FetchSubscriptionsCache(conns, key, subs, globalsince) ==
    IF key = NoConn THEN conns
    ELSE update_snake_sync_known_rooms(conns, key, "subscriptions",
                                       SubscribedRooms(subs), globalsince)

\* --------------------------------------------------- collect_typing_events
\* lines 975-1003: the extension is on and the request has lists or rooms
TypingRequested(body) ==
    /\ Enabled(body.typing)
    /\ (DOMAIN body.room_subscriptions # {} \/ DOMAIN body.lists # {})
\* A collector that leaves out the rooms in which nobody is typing.
collect_typing_events_nonempty(body, ty, sender_user) ==
    IF ~TypingRequested(body) THEN EmptyMap
    ELSE [room \in {r \in Rooms : typing_users_for_user(ty, r, sender_user) # {}}
            |-> typing_users_for_user(ty, room, sender_user)]
\* lines 975-1043: an entry for every room of the user
collect_typing_events(body, ty, sender_user) ==
    IF ~Enabled(body.typing) THEN EmptyMap
    ELSE IF DOMAIN body.room_subscriptions = {} /\ DOMAIN body.lists = {}
    THEN EmptyMap
    ELSE [room \in Rooms |-> typing_users_for_user(ty, room, sender_user)]

\* collect_typing_events not called yet
NoTypingResponse == [called |-> FALSE, sender_user |-> "none",
                     body |-> EmptySticky, rooms |-> EmptyMap]

\* ------------------------------------------------------------ process_rooms
\* load_timeline(room, since, until, limit): the latest `limit` events after
\* the watermark and up to the cursor, and whether more were left out
TimelineDelta(room_pdus, since, until) ==
    {c \in room_pdus : since < c /\ c <= until}
load_timeline(room_pdus, since, until, limit) ==
    LET delta == TimelineDelta(room_pdus, since, until)
    IN [pdus |-> {c \in delta : Cardinality({d \in delta : d > c}) < limit},
        limited |-> Cardinality(delta) > limit]

\* lines 414-444: the timeline of a to-do room that did not fail to load
RoomTimeline(room, entry, next_batch, all_pdus) ==
    IF room \in SeqRange(all_invited_rooms)
    THEN [pdus |-> {}, limited |-> TRUE]
    ELSE load_timeline(all_pdus[room], entry.roomsince, next_batch,
                       entry.timeline_limit)
\* lines 446-456: account_data.changes_since(room, roomsince, next_batch)
RoomAccountData(room, entry, next_batch, changes) ==
    {c \in changes[room] : entry.roomsince < c /\ c <= next_batch}
\* lines 458-492: the receipts since the watermark the requester does not ignore
RoomReceipts(room, entry, all_receipts) ==
    IF from_ignored_user(room) THEN {}
    ELSE {c \in all_receipts[room] : c > entry.roomsince}

\* process_rooms that gives up every room when one timeline fails to load.
LoadedRoomsAllOrNone(todo, failed) == IF failed = {} THEN DOMAIN todo ELSE {}
\* lines 428-444: a room whose timeline fails to load is left by `continue`
LoadedRooms(todo, failed) == DOMAIN todo \ failed

\* process_rooms that emits every room it loaded.
SkipRoomNever(roomsince, timeline_pdus, account_enabled, account_data, receipt_size) ==
    FALSE
\* lines 502-513
SkipRoom(roomsince, timeline_pdus, account_enabled, account_data, receipt_size) ==
    /\ roomsince # 0
    /\ timeline_pdus = {}
    /\ (~account_enabled \/ account_data = {})
    /\ receipt_size = 0

\* lines 515-532
PrevBatch(timeline_pdus, roomsince) ==
    IF timeline_pdus # {} THEN to_string(SetMin(timeline_pdus))
    ELSE IF roomsince # 0 THEN to_string(roomsince)
    ELSE PosAbsent

\* lines 534-566, 646-703: the room as the response carries it
RoomView(room, entry, tl) ==
    [timeline |-> IF from_ignored_user(room) THEN {} ELSE tl.pdus,
     required_state |-> {k \in entry.required_state : room_state_has(room, k)},
     initial |-> entry.roomsince = 0,
     limited |-> tl.limited,
     prev_batch |-> PrevBatch(tl.pdus, entry.roomsince),
     invite |-> room \in SeqRange(all_invited_rooms)]

\* ------------------------------------------- process_rooms: name and heroes
\* The requester is "me".  An Option<String> is the sequence of the pieces
\* the string is put together from (None: no piece).
HeroLimit == 5
\* the other users, in the order of the membership table
HeroOrder == <<"u01", "u02", "u03", "u04", "u05", "u06", "u07", "u08", "u09",
               "u10">>
\* memberevent.displayname of the users that have one
DisplayNames == [u \in {"u01", "u03"} |-> IF u = "u01" THEN "Ann" ELSE "Cy"]
displayname(u) == IF u \in DOMAIN DisplayNames THEN DisplayNames[u] ELSE Absent
\* the table with the requester after its first k members
WithRequester(members, k) ==
    SubSeq(members, 1, k) \o <<"me">> \o SubSeq(members, k + 1, Len(members))
MemberTables ==
    LET firsts == {SubSeq(HeroOrder, 1, n) : n \in 0..Len(HeroOrder)}
    IN firsts \cup {WithRequester(m, Min(k, Len(m))) : m \in firsts, k \in {0, 2}}
\* what process_rooms reads: get_name, room_members and the users whose
\* get_member fails
HeroWorlds == [room_name : {Absent, "Lobby"}, members : MemberTables,
               lookup_fails : SUBSET {"u01", "u02", "u06"}]
\* the world around the sync requests: a named room
HeroWorld0 == [room_name |-> "Lobby", members |-> <<"me">>, lookup_fails |-> {}]

\* lines 587-591
Hero(u) == [user_id |-> u, name |-> displayname(u)]
\* A list of heroes that is not cut.
TakeHeroesAll(found) == found
\* line 594: take(5)
TakeHeroes(found) == SubSeq(found, 1, Min(HeroLimit, Len(found)))
\* lines 576-599
Heroes(world, sender_user) ==
    IF world.room_name = Absent
    THEN LET others == SelectSeq(world.members, LAMBDA m : m # sender_user)
             found == SelectSeq(others, LAMBDA u : u \notin world.lookup_fails)
             taken == TakeHeroes(found)
         IN [i \in 1..Len(taken) |-> Hero(taken[i])]
    ELSE << >>
\* h.name.clone().unwrap_or_else(|| h.user_id.to_string())
name_or_id(h) == IF h.name = Absent THEN h.user_id ELSE h.name
\* [String]::join(sep)
RECURSIVE Join(_, _)
Join(strings, sep) ==
    IF strings = << >> THEN << >>
    ELSE IF Len(strings) = 1 THEN <<strings[1]>>
    ELSE <<strings[1], sep>> \o Join(Tail(strings), sep)
\* A fallback name that lists the heroes in their order.
hero_name_in_order(heroes) ==
    IF Len(heroes) > 1
    THEN Join([i \in 1..(Len(heroes) - 1) |-> name_or_id(heroes[i])], ", ")
         \o <<" and ", name_or_id(heroes[Len(heroes)])>>
    ELSE IF Len(heroes) = 1 THEN <<name_or_id(heroes[1])>>
    ELSE << >>
\* lines 601-627
hero_name(heroes) ==
    IF Len(heroes) > 1
    THEN LET firsts == Join([i \in 1..(Len(heroes) - 1) |->
                               name_or_id(heroes[i + 1])], ", ")
             last == name_or_id(heroes[1])
         IN firsts \o <<" and ", last>>
    ELSE IF Len(heroes) = 1 THEN <<name_or_id(heroes[1])>>
    ELSE << >>
\* line 652: room_name.or(hero_name)
RoomName(world, heroes) ==
    IF world.room_name # Absent THEN <<world.room_name>> ELSE hero_name(heroes)
\* process_rooms has not named the room yet
NoHeroResponse == [called |-> FALSE, heroes |-> << >>, name |-> << >>]

\* -------------------------------------------------------------- collect_e2ee
\* The requester is joined to r1 and r2; bob is the other user.  What the
\* collector reads of a joined room, relative to the presented watermark:
\*   has_state        get_room_shortstatehash succeeds
\*   since            get_token_shortstatehash: no snapshot recorded ("none"),
\*                    the current one ("same") or another one ("diff")
\*   encrypted        m.room.encryption is in the current state
\*   since_encrypted  ... and in the snapshot at the watermark
\*   since_joined     the requester's membership at the watermark is join
\*   was_member       the other users joined at the watermark
\*   events           per user, the membership events since the watermark,
\*                    oldest first (the last one is in the current state)
\*   keys             users.room_keys_changed(room, globalsince)
E2Users == {"bob"}
E2Rooms == SeqRange(all_joined_rooms)
MemberEvents == {<< >>, <<"join">>, <<"leave">>, <<"invite">>,
                 <<"join", "leave">>, <<"leave", "join">>}
NoEvents == [u \in E2Users |-> << >>]

\* the worlds of a room in which membership and state move
RoomWorlds ==
    {w \in [has_state : BOOLEAN, since : {"none", "same", "diff"},
            encrypted : BOOLEAN, since_encrypted : BOOLEAN,
            since_joined : BOOLEAN, was_member : SUBSET E2Users,
            events : [E2Users -> MemberEvents], keys : SUBSET E2Users] :
        /\ ~w.has_state => (~w.encrypted /\ w.since = "none")
        /\ w.since = "none" => (~w.since_encrypted /\ ~w.since_joined)
        /\ w.since = "same" => /\ w.events = NoEvents
                               /\ w.since_encrypted = w.encrypted
                               /\ w.since_joined
        /\ w.since_encrypted => w.encrypted}
\* the worlds of a room whose state did not move
QuietRoomWorlds ==
    {w \in RoomWorlds : w.has_state /\ w.since = "same" /\ w.keys = {}}

E2Worlds == [keys_changed : SUBSET E2Users,
             rooms : {f \in [E2Rooms -> RoomWorlds] :
                         f["r2"] \in QuietRoomWorlds}]
\* the world around the sync requests: bob uploaded keys, no room moved
E2World0 ==
    [keys_changed |-> {"bob"},
     rooms |-> [r \in E2Rooms |->
                  [has_state |-> TRUE, since |-> "same", encrypted |-> TRUE,
                   since_encrypted |-> TRUE, since_joined |-> TRUE,
                   was_member |-> {}, events |-> NoEvents, keys |-> {}]]]

\* the membership of a user in the room's current state
current_membership(rw, u) ==
    IF rw.events[u] # << >> THEN rw.events[u][Len(rw.events[u])]
    ELSE IF u \in rw.was_member THEN "join" ELSE "none"
\* state_cache.room_members(room) without the requester
room_members(rw) == {u \in E2Users : current_membership(rw, u) = "join"}
\* share_encrypted_room(sender, user, ignore_room): an encrypted room other
\* than ignore_room that both have joined ("none": no room is left out)
share_encrypted_room(world, u, ignore_room) ==
    \E r \in E2Rooms \ {ignore_room} :
        world.rooms[r].encrypted /\ u \in room_members(world.rooms[r])

\* lines 803-832: the state diff of the room is looked at
DiffsState(rw) == rw.has_state /\ rw.since = "diff" /\ rw.encrypted
\* A diff that sees every membership event since the watermark.
ChangedMembersAnyEvent(rw, membership) ==
    {u \in E2Users : \E i \in DOMAIN rw.events[u] : rw.events[u][i] = membership}
\* lines 847-885: the members whose current membership event is new
ChangedMembers(rw, membership) ==
    {u \in E2Users : rw.events[u] # << >>
                     /\ current_membership(rw, u) = membership}
\* lines 862-874
JoinedUsers(world, r) ==
    IF DiffsState(world.rooms[r])
    THEN {u \in ChangedMembers(world.rooms[r], "join") :
            ~share_encrypted_room(world, u, r)}
    ELSE {}
\* lines 875-879
LeftUsers(world, r) ==
    IF DiffsState(world.rooms[r])
    THEN ChangedMembers(world.rooms[r], "leave") ELSE {}
\* lines 826-830 and 886-904
RekeyedUsers(world, r) ==
    LET rw == world.rooms[r]
    IN IF DiffsState(rw) /\ (~rw.since_joined \/ ~rw.since_encrypted)
       THEN {u \in room_members(rw) : ~share_encrypted_room(world, u, r)}
       ELSE {}
\* lines 779-787, 803-807 and 907-916: the rooms without state and the rooms
\* whose snapshot is the one at the watermark are left before the read
RoomKeysChanged(rw) ==
    IF rw.has_state /\ rw.since # "same" THEN rw.keys ELSE {}
\* A left list that does not look at the rooms still shared.
FinallyLeftAll(world, left_encrypted_users) == left_encrypted_users
\* lines 919-928
FinallyLeft(world, left_encrypted_users) ==
    {u \in left_encrypted_users : ~share_encrypted_room(world, u, "none")}

NoE2EE == [changed |-> {}, left |-> {}]
\* collect_e2ee not called yet
NoE2eeResponse == [called |-> FALSE, flag |-> Absent, device_lists |-> NoE2EE]
\* line 762
E2eeEnabled(flag) == Enabled(flag)
\* lines 762-942 (device_lists)
collect_e2ee(world, flag) ==
    IF ~E2eeEnabled(flag) THEN NoE2EE
    ELSE [changed |->
             world.keys_changed
             \cup UNION {JoinedUsers(world, r) \cup RekeyedUsers(world, r)
                         \cup RoomKeysChanged(world.rooms[r]) : r \in E2Rooms},
          left |-> FinallyLeft(world,
                               UNION {LeftUsers(world, r) : r \in E2Rooms})]

\* ------------------------------------------------------------- the request
EmptyToDevice == [present |-> FALSE, next_batch |-> PosAbsent, events |-> {}]
EmptyResponse == [pos |-> PosAbsent, lists |-> EmptyMap, rooms |-> EmptyMap,
                  to_device |-> EmptyToDevice, account_data_global |-> {},
                  account_data_rooms |-> EmptyMap, receipts |-> EmptyMap,
                  typing |-> EmptyMap, e2ee |-> NoE2EE]
ReqIdle == [pc |-> "idle", conn |-> NoConn, globalsince |-> 0, next_batch |-> 0,
            body |-> EmptySticky, known_rooms |-> EmptyMap, todo |-> EmptyMap,
            resp |-> EmptyResponse, timeout |-> [some |-> FALSE, secs |-> 0],
            duration |-> 0, elapsed |-> 0, result |-> "none", failed |-> {}]
\* no response returned yet on a connection
NoPos == 0 - 1

\* lines 201-213: nothing in the response is worth returning at once
EntersWaitIgnoringToDevice(resp) ==
    \A id \in DOMAIN resp.rooms :
        /\ resp.rooms[id].timeline = {}
        /\ resp.rooms[id].required_state = {}
        /\ id \notin DOMAIN resp.receipts
EntersWait(resp) ==
    /\ \A id \in DOMAIN resp.rooms :
          /\ resp.rooms[id].timeline = {}
          /\ resp.rooms[id].required_state = {}
          /\ id \notin DOMAIN resp.receipts
    /\ (~resp.to_device.present \/ resp.to_device.events = {})

\* The wait bounded by the larger of the two.
WaitDurationMax(timeout) ==
    Max(IF timeout.some THEN timeout.secs ELSE DefaultTimeout, DefaultTimeout)
\* lines 217-218: cmp::min(body.timeout.unwrap_or(default), default)
WaitDuration(timeout) ==
    Min(IF timeout.some THEN timeout.secs ELSE DefaultTimeout, DefaultTimeout)

\* lines 72-105: the watcher, the count, the position check, the restart and
\* the merge of the sticky parameters
StartRequest(p, pos, conn, body) ==
    /\ req[p].pc = "idle"
    /\ counter < MaxCount
    /\ counter' = next_count(counter)
    /\ LET next_batch == next_count(counter)
           globalsince == parse_pos(pos)
       IN IF FailsUnknownPos(connections, globalsince, conn)
          THEN /\ req' = [req EXCEPT ![p] =
                            [ReqIdle EXCEPT !.result = "unknown_pos",
                                !.conn = conn, !.globalsince = globalsince,
                                !.next_batch = next_batch]]
               /\ connections' = connections
          ELSE LET conns1 == ForgetOnInitial(connections, globalsince, conn)
                   cached == lookup_or_init(conns1, conn)
                   merged == MergeSticky(cached.request, body)
               IN /\ connections' =
                        MapInsert(conns1, conn, [cached EXCEPT !.request = merged])
                  /\ req' = [req EXCEPT ![p] =
                               [ReqIdle EXCEPT !.pc = "ext", !.conn = conn,
                                   !.globalsince = globalsince,
                                   !.next_batch = next_batch,
                                   !.body = merged,
                                   !.known_rooms = cached.known_rooms]]
    /\ UNCHANGED <<typing_vars, ext_vars, to_device, pdus, room_account_data,
                   global_account_data, receipts, last_pos, delivered>>

\* lines 145-154: the global account data, the device lists and the
\* to-device acknowledgement
CollectExtensions(p) ==
    /\ req[p].pc = "ext"
    /\ to_device' = ToDeviceAfterAck(to_device, req[p].body.to_device,
                                     req[p].globalsince)
    /\ req' = [req EXCEPT ![p].pc = "todev",
                  ![p].resp.account_data_global =
                      AccountDataGlobal(global_account_data,
                                        req[p].body.account_data,
                                        req[p].globalsince),
                  ![p].resp.e2ee = collect_e2ee(e2ee_world, req[p].body.e2ee)]
    /\ UNCHANGED <<counter, typing_vars, ext_vars, connections, pdus, room_account_data,
                   global_account_data, receipts, last_pos, delivered>>

\* lines 959-970: the to-device events up to the new cursor; the response
CollectToDevice(p) ==
    /\ req[p].pc = "todev"
    /\ req' = [req EXCEPT ![p].pc = "lists",
                  ![p].resp.to_device =
                      ToDeviceResponse(to_device, req[p].body.to_device,
                                       req[p].next_batch),
                  ![p].resp.pos = ResponsePos(req[p].next_batch,
                                              req[p].globalsince)]
    /\ UNCHANGED <<counter, typing_vars, ext_vars, connections, to_device, pdus,
                   room_account_data, global_account_data, receipts, last_pos,
                   delivered>>

\* lines 172-186: handle_lists, then collect_typing_events
HandleLists(p) ==
    /\ req[p].pc = "lists"
    /\ connections' = HandleListsCache(connections, req[p].conn,
                                       req[p].body.lists, req[p].globalsince)
    /\ req' = [req EXCEPT ![p].pc = "subs",
                  ![p].todo = HandleListsTodo(req[p].body.lists,
                                              req[p].known_rooms),
                  ![p].resp.lists = [n \in DOMAIN req[p].body.lists |->
                                        ListCount(req[p].body.lists[n])],
                  ![p].resp.typing =
                      collect_typing_events(req[p].body, typing, "me")]
    /\ UNCHANGED <<counter, typing_vars, ext_vars, to_device, pdus, room_account_data,
                   global_account_data, receipts, last_pos, delivered>>

\* line 188: fetch_subscriptions
FetchSubscriptions(p) ==
    /\ req[p].pc = "subs"
    /\ connections' = FetchSubscriptionsCache(connections, req[p].conn,
                          req[p].body.room_subscriptions, req[p].globalsince)
    /\ req' = [req EXCEPT ![p].pc = "rooms",
                  ![p].todo = FetchSubscriptionsTodo(req[p].todo,
                                  req[p].body.room_subscriptions,
                                  req[p].known_rooms)]
    /\ UNCHANGED <<counter, typing_vars, ext_vars, to_device, pdus, room_account_data,
                   global_account_data, receipts, last_pos, delivered>>

\* lines 190-199: process_rooms; `failed` are the rooms whose timeline does
\* not load (kept in the request's record as history)
ProcessRooms(p) ==
    /\ req[p].pc = "rooms"
    /\ \E failed \in SUBSET (DOMAIN req[p].todo \ SeqRange(all_invited_rooms)) :
        LET todo == req[p].todo
            account_enabled == Enabled(req[p].body.account_data)
            loaded == LoadedRooms(todo, failed)
            tl(r) == RoomTimeline(r, todo[r], req[p].next_batch, pdus)
            ad(r) == RoomAccountData(r, todo[r], req[p].next_batch,
                                     room_account_data)
            rc(r) == RoomReceipts(r, todo[r], receipts)
            emitted == {r \in loaded :
                          ~SkipRoom(todo[r].roomsince, tl(r).pdus,
                                    account_enabled, ad(r), Cardinality(rc(r)))}
        IN req' = [req EXCEPT ![p].pc = "decide",
                      ![p].failed = failed,
                      ![p].resp.rooms =
                          [r \in emitted |-> RoomView(r, todo[r], tl(r))],
                      ![p].resp.account_data_rooms =
                          [r \in IF account_enabled THEN loaded ELSE {} |-> ad(r)],
                      ![p].resp.receipts =
                          [r \in {x \in loaded : rc(x) # {}} |-> rc(r)]]
    /\ UNCHANGED <<counter, typing_vars, ext_vars, connections, to_device, pdus,
                   room_account_data, global_account_data, receipts, last_pos,
                   delivered>>

\* A response put together anew when the request returns.
ReturnedResponseFresh(resp) == [EmptyResponse EXCEPT !.pos = resp.pos]
\* line 228: Ok(response)
ReturnedResponse(resp) == resp

\* lines 222-228: the response goes out
Return(p) ==
    /\ req' = [req EXCEPT ![p] = [ReqIdle EXCEPT !.result = "ok",
                                     !.resp = ReturnedResponse(req[p].resp)]]
    /\ last_pos' = [last_pos EXCEPT ![req[p].conn] =
                       Max(@, parse_pos(req[p].resp.pos))]
    /\ delivered' =
         [e \in DOMAIN delivered \cup req[p].resp.to_device.events |->
            IF e \notin req[p].resp.to_device.events THEN delivered[e]
            ELSE IF e \in DOMAIN delivered
                 THEN Min(delivered[e], parse_pos(req[p].resp.pos))
                 ELSE parse_pos(req[p].resp.pos)]

\* lines 201-220: wait, or answer at once
Decide(p, timeout) ==
    /\ req[p].pc = "decide"
    /\ IF EntersWait(req[p].resp)
       THEN /\ req' = [req EXCEPT ![p].pc = "wait",
                          ![p].timeout = timeout,
                          ![p].duration = WaitDuration(timeout),
                          ![p].elapsed = 0]
            /\ UNCHANGED <<last_pos, delivered>>
       ELSE Return(p)
    /\ UNCHANGED <<counter, typing_vars, ext_vars, connections, to_device, pdus,
                   room_account_data, global_account_data, receipts>>

\* line 219: time passes in tokio::time::timeout
WaitElapse(p) ==
    /\ req[p].pc = "wait"
    /\ req[p].elapsed < req[p].duration
    /\ req' = [req EXCEPT ![p].elapsed = Min(@ + WaitStep, req[p].duration)]
    /\ UNCHANGED <<counter, typing_vars, ext_vars, connections, to_device, pdus,
                   room_account_data, global_account_data, receipts, last_pos,
                   delivered>>

\* line 219: the timer fires
WaitTimeout(p) ==
    /\ req[p].pc = "wait"
    /\ req[p].elapsed >= req[p].duration
    /\ Return(p)
    /\ UNCHANGED <<counter, typing_vars, ext_vars, connections, to_device, pdus,
                   room_account_data, global_account_data, receipts>>

\* line 219: the watcher of this user and device fires
WaitNotified(p) ==
    /\ req[p].pc = "wait"
    /\ Return(p)
    /\ UNCHANGED <<counter, typing_vars, ext_vars, connections, to_device, pdus,
                   room_account_data, global_account_data, receipts>>

\* ------------------------------------------------------------ environment
\* a to-device event is queued for the device under a new count
SendToDevice ==
    /\ counter < MaxCount
    /\ counter' = next_count(counter)
    /\ to_device' = to_device \cup {next_count(counter)}
    /\ UNCHANGED <<typing_vars, ext_vars, connections, pdus, room_account_data,
                   global_account_data, receipts, req, last_pos, delivered>>

\* an event is appended to a room's timeline
NewPdu(room) ==
    /\ counter < MaxCount
    /\ counter' = next_count(counter)
    /\ pdus' = [pdus EXCEPT ![room] = @ \cup {next_count(counter)}]
    /\ UNCHANGED <<typing_vars, ext_vars, connections, to_device, room_account_data,
                   global_account_data, receipts, req, last_pos, delivered>>

\* the user's account data of a room changes
NewRoomAccountData(room) ==
    /\ counter < MaxCount
    /\ counter' = next_count(counter)
    /\ room_account_data' =
          [room_account_data EXCEPT ![room] = @ \cup {next_count(counter)}]
    /\ UNCHANGED <<typing_vars, ext_vars, connections, to_device, pdus,
                   global_account_data, receipts, req, last_pos, delivered>>

\* the user's global account data changes
NewGlobalAccountData ==
    /\ counter < MaxCount
    /\ counter' = next_count(counter)
    /\ global_account_data' = global_account_data \cup {next_count(counter)}
    /\ UNCHANGED <<typing_vars, ext_vars, connections, to_device, pdus,
                   room_account_data, receipts, req, last_pos, delivered>>

\* a receipt (public or the user's private one) arrives in a room
NewReceipt(room) ==
    /\ counter < MaxCount
    /\ counter' = next_count(counter)
    /\ receipts' = [receipts EXCEPT ![room] = @ \cup {next_count(counter)}]
    /\ UNCHANGED <<typing_vars, ext_vars, connections, to_device, pdus,
                   room_account_data, global_account_data, req, last_pos,
                   delivered>>

SyncInit ==
    /\ connections = EmptyMap
    /\ to_device = {}
    /\ pdus = [r \in Rooms |-> {}]
    /\ room_account_data = [r \in Rooms |-> {}]
    /\ global_account_data = {}
    /\ receipts = [r \in Rooms |-> {}]
    /\ req = [p \in Procs |-> ReqIdle]
    /\ last_pos = [c \in ConnIds |-> NoPos]
    /\ delivered = EmptyMap

\* around the sync requests and the typing registry the E2EE world is fixed
E2eeInit == e2ee_world = E2World0 /\ e2ee_response = NoE2eeResponse
\* ... and collect_typing_events has not been called on its own
\* ... and neither has the naming of a room
HeroInit == hero_world = HeroWorld0 /\ hero_response = NoHeroResponse
ExtInit == E2eeInit /\ typing_response = NoTypingResponse /\ HeroInit

Init == counter = 0 /\ TypingInit /\ SyncInit /\ ExtInit

\* the positions a client presents: none, junk, or any count issued so far
PosInputs == {PosAbsent, PosJunk} \cup {PosCount(n) : n \in 0..counter}

\* the steps of the request task p after its start
RequestRun(p) ==
    \/ CollectExtensions(p)
    \/ CollectToDevice(p)
    \/ HandleLists(p)
    \/ FetchSubscriptions(p)
    \/ ProcessRooms(p)
    \/ \E timeout \in TimeoutInputs : Decide(p, timeout)
    \/ WaitElapse(p)
    \/ WaitTimeout(p)
    \/ WaitNotified(p)

\* the steps of the request task p
RequestStep(p) ==
    \/ \E pos \in PosInputs, conn \in ConnIds, body \in SyncBodies :
          StartRequest(p, pos, conn, body)
    \/ RequestRun(p)

\* what happens around the requests: to-device traffic and activity in r1
Environment ==
    \/ SendToDevice
    \/ NewPdu("r1")
    \/ NewRoomAccountData("r1")
    \/ NewReceipt("r1")

\* one request at a time on the device
Next == RequestStep("p1") \/ Environment

Spec == Init /\ [][Next]_vars

\* The long poll on its own: requests, to-device traffic and global account
\* data; the tokio timer is fair, so time passes and a due timer fires.
NextWait ==
    \/ RequestStep("p1")
    \/ SendToDevice
    \/ NewGlobalAccountData

SpecWait ==
    /\ Init
    /\ [][NextWait]_vars
    /\ WF_vars(WaitElapse("p1"))
    /\ WF_vars(WaitTimeout("p1"))

\* The naming of a room on its own, once in any of the worlds
NameRoom ==
    /\ ~hero_response.called
    /\ LET heroes == Heroes(hero_world, "me")
       IN hero_response' = [called |-> TRUE, heroes |-> heroes,
                            name |-> RoomName(hero_world, heroes)]
    /\ UNCHANGED <<counter, typing_vars, sync_vars, e2ee_world, e2ee_response,
                   typing_response, hero_world>>

InitHeroes ==
    /\ counter = 0 /\ TypingInit /\ SyncInit /\ E2eeInit
    /\ typing_response = NoTypingResponse
    /\ hero_world \in HeroWorlds
    /\ hero_response = NoHeroResponse

NextHeroes == NameRoom

SpecHeroes == InitHeroes /\ [][NextHeroes]_vars

\* Two requests of the device in flight at once: either task takes any of
\* its steps while the other is computing or in its long poll.
\* Both are on connection c1 and ask for the list of every room.
OverlapBodies == {BodyLists}
NextOverlap ==
    \E p \in Procs :
        \/ \E pos \in PosInputs, body \in OverlapBodies :
              StartRequest(p, pos, "c1", body)
        \/ RequestRun(p)

SpecOverlap == Init /\ [][NextOverlap]_vars

\* collect_e2ee on its own, called once with each enabled flag in any of
\* the worlds
CollectE2ee(flag) ==
    /\ ~e2ee_response.called
    /\ e2ee_response' = [called |-> TRUE, flag |-> flag,
                         device_lists |-> collect_e2ee(e2ee_world, flag)]
    /\ UNCHANGED <<counter, typing_vars, sync_vars, e2ee_world, typing_response,
                   hero_world, hero_response>>

InitE2ee ==
    /\ counter = 0 /\ TypingInit /\ SyncInit
    /\ e2ee_world \in E2Worlds
    /\ e2ee_response = NoE2eeResponse
    /\ typing_response = NoTypingResponse
    /\ HeroInit

NextE2ee == \E flag \in {Absent, "true", "false"} : CollectE2ee(flag)

SpecE2ee == InitE2ee /\ [][NextE2ee]_vars

NextTyping ==
    \/ \E t \in TProcs, ur \in TypingInputs, timeout \in Timeouts :
          TypingAddCall(t, ur[1], ur[2], timeout)
    \/ \E t \in TProcs, ur \in TypingInputs : TypingRemoveCall(t, ur[1], ur[2])
    \/ \E t \in TProcs : TypingStamp(t)
    \/ \E t \in TProcs : TypingFederate(t)
    \/ \E t \in TProcs, r \in TRooms : MaintainScan(t, r)
    \/ \E t \in TProcs : MaintainRemove(t)
    \/ \E t \in TProcs : MaintainStamp(t)
    \/ \E t \in TProcs : MaintainFederate(t)
    \/ Tick

SpecTyping == Init /\ [][NextTyping]_vars

\* wait_for_update next to one task calling the registry.  The run starts
\* with no receiver, or with a receiver that awaits r1 and has not been
\* polled while bob's typing in r2 was renewed ChannelCapacity - 1 times.
\* Outgoing typing is off, so no call fails at its hand-off.
NotifyBacklogs == {0, ChannelCapacity - 1}
InitNotify ==
    /\ SyncInit /\ ExtInit
    /\ now = 0
    /\ typing_wlock = NoProc
    /\ allow_outgoing_typing = FALSE
    /\ edus = {}
    /\ tp = [t \in TProcs |-> TIdle]
    /\ \E n \in NotifyBacklogs :
          /\ counter = n
          /\ IF n = 0
             THEN /\ typing = EmptyMap
                  /\ last_typing_update = EmptyMap
                  /\ receiver = NoReceiver
             ELSE /\ typing = [r \in {"r2"} |-> [u \in {"bob"} |-> MaxTime + 1]]
                  /\ last_typing_update = [r \in {"r2"} |-> n]
                  /\ receiver = [subscribe("r1") EXCEPT
                                   !.unread = [i \in 1..n |-> "r2"],
                                   !.sent = n, !.heard = {"r2"}]

NextNotify ==
    \/ \E ur \in TypingInputs, timeout \in Timeouts :
          TypingAddCall("t1", ur[1], ur[2], timeout)
    \/ \E ur \in TypingInputs : TypingRemoveCall("t1", ur[1], ur[2])
    \/ TypingStamp("t1")
    \/ TypingFederate("t1")
    \/ \E r \in TRooms : MaintainScan("t1", r)
    \/ MaintainRemove("t1")
    \/ MaintainStamp("t1")
    \/ MaintainFederate("t1")
    \/ Tick
    \/ \E r \in TRooms : Subscribe(r)
    \/ Recv

\* the task that runs wait_for_update is scheduled again and again
SpecNotify == InitNotify /\ [][NextNotify]_vars /\ WF_vars(Recv)

\* collect_typing_events on its own, called once by either requester at any
\* moment of the registry's life
CollectTyping(body, sender_user) ==
    /\ ~typing_response.called
    /\ typing_response' =
          [called |-> TRUE, sender_user |-> sender_user, body |-> body,
           rooms |-> collect_typing_events(body, typing, sender_user)]
    /\ UNCHANGED <<counter, typing_vars, sync_vars, e2ee_world, e2ee_response,
                   hero_world, hero_response>>

NextTypingSync ==
    \/ NextTyping
    \/ \E body \in SyncBodies, sender_user \in Requesters :
          CollectTyping(body, sender_user)

SpecTypingSync == Init /\ [][NextTypingSync]_vars

\* ===========================================================================
\* Claims about the sync route (checked under Spec; C10 under SpecWait)
\* ===========================================================================
\* the step in which task p starts a request: it takes the new count
Starts(p) == counter' # counter /\ req'[p].next_batch = counter'
\* the step in which task p returns its response
Returns(p) == req[p].pc \in {"decide", "wait"} /\ req'[p].pc = "idle"
\* the positions of task p at which its to-device part is collected
AfterToDevice == {"lists", "subs", "rooms", "decide", "wait"}

\* C1: a request whose pos parses to a non-zero cursor and whose connection
\* is not in the connection cache fails with UnknownPos, and leaves the
\* connection cache and the to-device queue as they were.
C1_UnknownPos ==
    [][\A p \in Procs :
         (/\ Starts(p)
          /\ req'[p].globalsince # 0
          /\ req'[p].conn \notin DOMAIN connections)
            => /\ req'[p].pc = "idle"
               /\ req'[p].result = "unknown_pos"
               /\ connections' = connections
               /\ to_device' = to_device]_vars

\* C1 witness: a request has failed with UnknownPos while another connection
\* is cached and to-device events are queued.
C1_Witness ==
    \E p \in Procs :
        /\ req[p].result = "unknown_pos"
        /\ req[p].conn \notin DOMAIN connections
        /\ DOMAIN connections # {}
        /\ to_device # {}

\* C2: a request whose pos is 0 or absent never fails with UnknownPos, and
\* what the connection had cached is forgotten before the request is merged:
\* the request runs on its own body alone, with no known rooms, and every
\* to-do room has watermark 0.
C2_Restart ==
    \A p \in Procs :
        /\ req[p].result = "unknown_pos" => req[p].globalsince # 0
        /\ (req[p].pc # "idle" /\ req[p].globalsince = 0)
              => /\ req[p].known_rooms = EmptyMap
                 /\ \E b \in SyncBodies :
                        req[p].body = MergeSticky(EmptySticky, b)
                 /\ \A r \in DOMAIN req[p].todo : req[p].todo[r].roomsince = 0

\* C2 witness: a restart on a connection that has already returned responses,
\* with its to-do table built.
C2_Witness ==
    \E p \in Procs :
        /\ req[p].pc = "rooms"
        /\ req[p].globalsince = 0
        /\ req[p].conn # NoConn
        /\ last_pos[req[p].conn] >= 2
        /\ DOMAIN req[p].todo # {}

\* C3: the pos of each response is strictly greater than the pos of every
\* response returned before on that connection.
C3_PosIncreases ==
    [][\A p \in Procs :
         Returns(p) => parse_pos(req[p].resp.pos) > last_pos[req[p].conn]]_vars

\* C3 witness: a response is about to go out on a connection that has
\* returned one before.
C3_Witness ==
    \E p \in Procs :
        /\ req[p].pc = "decide"
        /\ last_pos[req[p].conn] >= 1

\* C7: with the to-device extension enabled, an event returned by a sync
\* that returned cursor W2 is not returned by a later sync that presents
\* W2 or more.
C7_ToDeviceOnce ==
    \A p \in Procs :
        (req[p].pc \in AfterToDevice /\ req[p].resp.to_device.present)
          => \A e \in req[p].resp.to_device.events :
                e \in DOMAIN delivered => req[p].globalsince < delivered[e]

\* C7 witness: a sync with the extension enabled has collected its to-device
\* part after presenting a cursor at or beyond the one an event was returned
\* with.
C7_Witness ==
    \E p \in Procs, e \in DOMAIN delivered :
        /\ req[p].pc \in AfterToDevice
        /\ req[p].resp.to_device.present
        /\ req[p].globalsince >= delivered[e]

\* the case of C8: nothing of the room is new since its watermark
Unchanged(p, r) ==
    /\ req[p].todo[r].roomsince # 0
    /\ TimelineDelta(pdus[r], req[p].todo[r].roomsince, req[p].next_batch) = {}
    /\ {c \in room_account_data[r] : c > req[p].todo[r].roomsince} = {}
    /\ {c \in receipts[r] : c > req[p].todo[r].roomsince} = {}

\* C8: a to-do room with a non-zero watermark, an empty timeline delta, no
\* room account-data changes and no receipts since the watermark is absent
\* from the response's rooms.
C8_Minimality ==
    \A p \in Procs :
        req[p].pc \in {"decide", "wait"}
          => \A r \in DOMAIN req[p].todo :
                Unchanged(p, r) => r \notin DOMAIN req[p].resp.rooms

\* C8 witness: a joined room with events, unchanged since its non-zero
\* watermark, has been processed and left out.
C8_Witness ==
    \E p \in Procs :
        /\ req[p].pc = "decide"
        /\ "r1" \in DOMAIN req[p].todo
        /\ pdus["r1"] # {}
        /\ Unchanged(p, "r1")
        /\ "r1" \notin DOMAIN req[p].resp.rooms

\* the response carries no timeline event, required-state event, room
\* receipt or to-device event
Quiet(resp) ==
    /\ \A r \in DOMAIN resp.rooms :
          resp.rooms[r].timeline = {} /\ resp.rooms[r].required_state = {}
    /\ DOMAIN resp.receipts = {}
    /\ (resp.to_device.present => resp.to_device.events = {})

\* C9: the request enters the long-poll wait exactly when the assembled
\* response carries no timeline event, required state, room receipt or
\* to-device event; otherwise it returns without waiting.
C9_WaitIffQuiet ==
    [][\A p \in Procs :
         (req[p].pc = "decide" /\ req'[p].pc # "decide")
            => (req'[p].pc = "wait" <=> Quiet(req[p].resp))]_vars

\* C9 witness: a request waits on a response that carries rooms and a
\* to-device part, all of them empty of news.
C9_Witness ==
    \E p \in Procs :
        /\ req[p].pc = "wait"
        /\ DOMAIN req[p].resp.rooms # {}
        /\ req[p].resp.to_device.present

\* C10: a request in the long-poll wait returns: it never waits beyond
\* min(client timeout, 30 s) (30 s without a client timeout), and the wait
\* ends even if no notification fires.
C10_WaitEnds ==
    \A p \in {"p1"} :
        /\ [](req[p].pc = "wait"
               => req[p].elapsed <=
                     Min(IF req[p].timeout.some THEN req[p].timeout.secs
                         ELSE DefaultTimeout, DefaultTimeout))
        /\ (req[p].pc = "wait") ~> (req[p].pc = "idle")

\* C10 witness: a wait without a client timeout has run its full 30 s.
C10_Witness ==
    \E p \in Procs :
        /\ req[p].pc = "wait"
        /\ ~req[p].timeout.some
        /\ req[p].elapsed = DefaultTimeout

\* ===========================================================================
\* Claims about the typing registry (checked under SpecTyping)
\* ===========================================================================

\* C4: after typing_add(user, room, T), typing_users_for_user(room, requester),
\* for a requester who does not ignore the user, returns the user at every
\* wall-clock time < T and does not return the user at any time >= T, whether
\* or not typings_maintain has run.  (An entry of the typing map is a
\* typing_add not yet undone by a remove or a sweep.)
C4_TypingExpiry ==
    \A r \in TRooms, u \in TUsers, q \in Requesters :
        (u \in TypingUsers(typing, r) /\ ~user_is_ignored(u, q))
            => (u \in typing_users_for_user(typing, r, q) <=> now < typing[r][u])

\* C5: under any interleaving of typing_add, typing_remove and
\* typings_maintain calls, no step decreases the last_typing_update value
\* stored for a room.
C5_CursorMonotone ==
    [][\A r \in TRooms : LastUpdateOf(last_typing_update', r)
                            >= LastUpdateOf(last_typing_update, r)]_vars

\* C5 witness: a sweep has just bumped a room's cursor to a second or later
\* count while another call is between its typing write and its own bump.
C5_Witness ==
    \E t \in TProcs, t2 \in TProcs :
        /\ tp[t].pc = "m_fed"
        /\ counter >= 2
        /\ LastUpdateOf(last_typing_update, tp[t].room) = counter
        /\ tp[t2].pc = "stamp"

\* C6: typing_remove(user, room) for a user who is not typing in the room
\* returns success, leaves the typing users and timeouts of every room
\* unchanged, and sets the room's last_typing_update to exactly one newly
\* allocated count.
C6_RemoveAbsent ==
    /\ [](\A t \in TProcs :
            (tp[t].pc = "done" /\ tp[t].op = "remove" /\ ~tp[t].was_typing)
                => tp[t].result = "ok")
    /\ [][\A t \in TProcs :
            /\ (TCallable(t) /\ tp'[t].pc = "stamp" /\ tp'[t].op = "remove"
                    /\ ~tp'[t].was_typing)
                 => \A r \in TRooms : RoomTyping(typing', r) = RoomTyping(typing, r)
            /\ (tp[t].pc = "stamp" /\ tp[t].op = "remove" /\ tp'[t].pc = "fed")
                 => /\ counter' = counter + 1
                    /\ LastUpdateOf(last_typing_update', tp[t].room) = counter'
            /\ (tp[t].pc = "fed" /\ tp[t].op = "remove" /\ tp'[t].pc = "done")
                 => /\ counter' = counter
                    /\ last_typing_update' = last_typing_update]_vars

\* the step in which task t makes its federation hand-offs and returns
Federates(t) == tp[t].pc \in {"fed", "m_fed"} /\ tp'[t].pc = "done"
\* the EDUs the call of task t owes: one for the user of an add or a remove,
\* one stop signal per user the sweep removed
OwedEdus(t) ==
    IF tp[t].pc = "fed"
    THEN {TypingEdu(tp[t].room, tp[t].user, tp[t].op = "add")}
    ELSE {TypingEdu(tp[t].room, u, FALSE) : u \in tp[t].removable}

\* C15: typing_add, typing_remove and the sweep hand a typing EDU
\* {room_id, user_id, typing} to the federation queue if and only if the user
\* is local and outgoing typing is allowed; no EDU is ever handed off for a
\* remote user or with outgoing typing disabled.
C15_EduIffLocalAllowed ==
    /\ [](\A e \in edus : user_is_local(e.user_id) /\ allow_outgoing_typing)
    /\ [][\A t \in TProcs :
            Federates(t)
              => /\ \A e \in OwedEdus(t) :
                       (user_is_local(e.user_id) /\ allow_outgoing_typing)
                          => e \in edus'
                 /\ edus' \ edus \subseteq OwedEdus(t)]_vars

\* C16: the hand-off is fire-and-forget: whatever the federation queue does,
\* typing_add, typing_remove and last_typing_update return success, and a
\* sweep hands off the stop signal of every removed local user.
C16_FireAndForget ==
    [][\A t \in TProcs :
         Federates(t)
           => /\ tp'[t].result = "ok"
              /\ allow_outgoing_typing
                   => \A u \in tp[t].removable :
                         user_is_local(u)
                           => TypingEdu(tp[t].room, u, FALSE) \in edus']_vars

\* ===========================================================================
\* Claims about collect_e2ee (checked under SpecE2ee)
\* ===========================================================================
\* collect_e2ee has returned the device lists of an enabled extension
E2eeReturned == e2ee_response.called /\ Enabled(e2ee_response.flag)
\* the user's latest membership event since the watermark in an encrypted
\* room of the requester, whose state moved since the watermark, is a leave
SeenLeaving(u, r) ==
    LET rw == e2ee_world.rooms[r]
    IN /\ rw.has_state /\ rw.encrypted /\ rw.since = "diff"
       /\ rw.events[u] # << >>
       /\ rw.events[u][Len(rw.events[u])] = "leave"
\* the requester and the user are both joined to some encrypted room
SharesEncryptedRoom(u) ==
    \E r \in E2Rooms :
        /\ e2ee_world.rooms[r].encrypted
        /\ current_membership(e2ee_world.rooms[r], u) = "join"
\* the user joined and then left the encrypted room r since the watermark and
\* shares no encrypted room with the requester
JoinedThenLeft(u, r) ==
    LET rw == e2ee_world.rooms[r]
    IN /\ rw.has_state /\ rw.encrypted /\ rw.since = "diff"
       /\ rw.events[u] = <<"join", "leave">>
       /\ ~SharesEncryptedRoom(u)
\* the key-change sources that were read name the user
KeysNamed(u) ==
    \/ u \in e2ee_world.keys_changed
    \/ \E r \in E2Rooms :
          /\ e2ee_world.rooms[r].has_state
          /\ e2ee_world.rooms[r].since # "same"
          /\ u \in e2ee_world.rooms[r].keys

\* C18: a user is in device_lists.left only if seen leaving an encrypted
\* joined room in the state diff since the watermark and sharing no encrypted
\* room with the requester once every room has been processed.
C18_LeftOnlyIfUnshared ==
    E2eeReturned
      => \A u \in e2ee_response.device_lists.left :
            /\ \E r \in E2Rooms : SeenLeaving(u, r)
            /\ ~SharesEncryptedRoom(u)

\* C18 witness: a user is reported left.
C18_Witness ==
    /\ E2eeReturned
    /\ e2ee_response.device_lists.left # {}

C20_RoomKeysChanged ==
    E2eeReturned
      => \A r \in E2Rooms :
            e2ee_world.rooms[r].keys \subseteq e2ee_response.device_lists.changed

\* ===========================================================================
\* More claims about the sync route (checked under Spec)
\* ===========================================================================
\* C11: when the long-poll wait ends, by timeout or by notification, the
\* request returns successfully with exactly the response assembled before
\* the wait; the wait changes nothing of it.
C11_WaitKeepsResponse ==
    [][\A p \in Procs :
         req[p].pc = "wait"
           => /\ req'[p].resp = req[p].resp
              /\ req'[p].pc = "idle" => req'[p].result = "ok"]_vars

\* C11 witness: a response that carries lists and nothing new has been
\* returned, which it can only be after a wait.
C11_Witness ==
    \E p \in Procs :
        /\ req[p].pc = "idle"
        /\ req[p].result = "ok"
        /\ DOMAIN req[p].resp.lists # {}
        /\ Quiet(req[p].resp)

\* the rooms at positions [0, min(e, n)) of the active set, for any range
\* (s, e) of the list
Selected(list) ==
    LET active == ActiveRooms(list)
    IN {active[j] : j \in {i \in 1..Len(active) :
                             \E k \in DOMAIN list.ranges : i <= list.ranges[k][2]}}

\* C12: for every list, handle_lists selects exactly the rooms at positions
\* [0, min(e, n)) of the active set for its ranges (s, e), whatever s is, and
\* reports n, the size of the active set, as the list's count.
C12_ClampedWindow ==
    \A p \in Procs :
        req[p].pc = "subs"
          => /\ DOMAIN req[p].todo =
                   UNION {Selected(req[p].body.lists[n])
                          : n \in DOMAIN req[p].body.lists}
             /\ \A n \in DOMAIN req[p].body.lists :
                   /\ req[p].resp.lists[n] = Len(ActiveRooms(req[p].body.lists[n]))
                   /\ req[p].conn # NoConn
                        => Selected(req[p].body.lists[n]) \subseteq
                             DOMAIN connections[req[p].conn].known_rooms[n]

\* C12 witness: a list asking for (1, 5) of three rooms selected all three,
\* the first included.
C12_Witness ==
    \E p \in Procs :
        /\ req[p].pc = "subs"
        /\ "a" \in DOMAIN req[p].body.lists
        /\ req[p].body.lists["a"].ranges[1] = <<1, 5>>
        /\ DOMAIN req[p].todo = Rooms
        /\ req[p].resp.lists["a"] = 3

\* C13: a collector whose enabled flag is false or absent returns its empty
\* value and touches no storage: with to-device disabled no queued event is
\* removed, with account data disabled the response has no account data,
\* global or per room; a request never writes what the collectors read.
C13_DisabledNeutral ==
    /\ [](\A p \in Procs :
            req[p].pc \in {"decide", "wait"}
              => /\ ~Enabled(req[p].body.account_data)
                    => /\ req[p].resp.account_data_global = {}
                       /\ req[p].resp.account_data_rooms = EmptyMap
                 /\ ~Enabled(req[p].body.e2ee) => req[p].resp.e2ee = NoE2EE
                 /\ ~Enabled(req[p].body.to_device)
                    => ~req[p].resp.to_device.present
                 /\ ~Enabled(req[p].body.typing)
                    => req[p].resp.typing = EmptyMap)
    /\ [][\A p \in Procs :
            req'[p] # req[p]
              => /\ ~Enabled(req[p].body.to_device) => to_device' = to_device
                 /\ UNCHANGED <<pdus, room_account_data, global_account_data,
                                receipts, typing, last_typing_update,
                                e2ee_world>>]_vars

\* C13 witness: a request with to-device disabled has been assembled while
\* events at or below its watermark are queued.
C13_Witness ==
    \E p \in Procs :
        /\ req[p].pc = "decide"
        /\ ~Enabled(req[p].body.to_device)
        /\ \E e \in to_device : e <= req[p].globalsince

\* a watermark of the connection cache (0: none recorded)
Recorded(conns, key, list, room) ==
    IF key \in DOMAIN conns THEN KnownSince(conns[key].known_rooms, list, room)
    ELSE 0
ListNames == {"a", "subscriptions"}
\* the request steps that record watermarks
Records(p) == req[p].pc \in {"lists", "subs"} /\ req'[p] # req[p]

TypingCollected == ~typing_response.called /\ typing_response'.called

C25_TimelineLimitCapped ==
    \A p \in Procs :
        \A r \in DOMAIN req[p].todo :
            req[p].todo[r].timeline_limit <= MaxTimelineLimit

\* the step in which process_rooms runs for task p
ProcessesRooms(p) == req[p].pc = "rooms" /\ req'[p].pc = "decide"
\* what process_rooms makes of room r when nothing fails to load
RoomAlone(p, r) ==
    LET entry == req[p].todo[r]
        tl == RoomTimeline(r, entry, req[p].next_batch, pdus)
        ad == RoomAccountData(r, entry, req[p].next_batch, room_account_data)
        rc == RoomReceipts(r, entry, receipts)
        account_enabled == Enabled(req[p].body.account_data)
    IN [emitted |-> ~SkipRoom(entry.roomsince, tl.pdus, account_enabled, ad,
                              Cardinality(rc)),
        view |-> RoomView(r, entry, tl),
        has_account_data |-> account_enabled,
        account_data |-> ad,
        receipts |-> rc]

\* C26: a timeline load failure for one to-do room makes that room absent
\* from the response's rooms map and nothing else: process_rooms still
\* succeeds and every other to-do room is processed and emitted exactly as
\* it would be without the failure.
C26_LoadFailureSkipsRoom ==
    [][\A p \in Procs :
         ProcessesRooms(p)
           => LET failed == req'[p].failed
                  resp == req'[p].resp
              IN /\ DOMAIN resp.rooms \cap failed = {}
                 /\ \A r \in DOMAIN req[p].todo \ failed :
                       LET alone == RoomAlone(p, r)
                       IN /\ r \in DOMAIN resp.rooms <=> alone.emitted
                          /\ alone.emitted => resp.rooms[r] = alone.view
                          /\ r \in DOMAIN resp.account_data_rooms
                                <=> alone.has_account_data
                          /\ alone.has_account_data
                                => resp.account_data_rooms[r] = alone.account_data
                          /\ r \in DOMAIN resp.receipts <=> alone.receipts # {}
                          /\ alone.receipts # {}
                                => resp.receipts[r] = alone.receipts]_vars

\* C26 witness: process_rooms has returned a response with the room of one
\* to-do entry while the timeline of another failed to load.
C26_Witness ==
    \E p \in Procs :
        /\ req[p].pc = "decide"
        /\ req[p].failed # {}
        /\ DOMAIN req[p].resp.rooms \ SeqRange(all_invited_rooms) # {}

\* ===========================================================================
\* Claims about overlapping requests (checked under SpecOverlap)
\* ===========================================================================
\* C28 as stated: also when two requests on a connection overlap, no
\* response carries a pos lower than or equal to a pos already returned on
\* that connection.
C28_OverlapPosOrder ==
    [][\A p \in Procs, c \in ConnIds :
         (Returns(p) /\ req[p].conn = c)
           => /\ last_pos'[c] > last_pos[c]
              /\ last_pos'[c] = parse_pos(req'[p].resp.pos)]_vars

\* C28 amended: the pos of a response is the count its request took when it
\* started, which is above the count of every request started before and
\* above every pos returned before the start; the response of a request that
\* another one overtook goes out with its lower pos all the same.
C28_PosIsStartCount ==
    [][\A p \in Procs :
         /\ Starts(p)
              => /\ \A q \in Procs \ {p} : req'[p].next_batch > req[q].next_batch
                 /\ \A c \in ConnIds : req'[p].next_batch > last_pos[c]
         /\ Returns(p)
              => /\ req'[p].result = "ok"
                 /\ parse_pos(req'[p].resp.pos) = req[p].next_batch]_vars

\* C28 witness: a request in its long poll on a connection on which a
\* request that started later has already returned its response.
C28_Witness ==
    \E p \in Procs :
        /\ req[p].pc = "wait"
        /\ req[p].conn # NoConn
        /\ parse_pos(req[p].resp.pos) < last_pos[req[p].conn]

\* ===========================================================================
\* Claims about the sweep (checked under SpecTyping)
\* ===========================================================================
\* the step in which the sweep of task t removes its entries
Sweeps(t) == tp[t].pc = "m_remove" /\ tp'[t].pc = "m_stamp"
\* the step in which the sweep of task t finds nothing to remove and returns
SweepsNothing(t) ==
    /\ TCallable(t) /\ tp'[t] # tp[t]
    /\ tp'[t].pc = "done" /\ tp'[t].op = "maintain"
\* the entries of a room whose timeout has elapsed
Expired(ty, room) == {u \in TypingUsers(ty, room) : ty[room][u] < now}
\* the entries of a room a step removes
Removed(room) == TypingUsers(typing, room) \ TypingUsers(typing', room)

\* C23: the sweep removes every entry of the room whose timeout has elapsed
\* against the wall clock and no other entry; having removed at least one it
\* bumps the room's cursor once; having none to remove it leaves the typing
\* map and the cursor unchanged.
C23_SweepRemovesExpired ==
    /\ [][\A t \in TProcs :
            Sweeps(t)
              => /\ Removed(tp[t].room) = Expired(typing, tp[t].room)
                 /\ Removed(tp[t].room) # {}
                 /\ \A r \in TRooms :
                       \A u \in TypingUsers(typing', r) :
                          /\ u \in TypingUsers(typing, r)
                          /\ typing'[r][u] = typing[r][u]]_vars
    /\ [][\A t \in TProcs :
            (tp[t].pc = "m_stamp" /\ tp'[t].pc = "m_fed")
              => /\ counter' = counter + 1
                 /\ LastUpdateOf(last_typing_update', tp[t].room) = counter'
                 /\ typing' = typing]_vars
    /\ [][\A t \in TProcs :
            SweepsNothing(t)
              => /\ typing' = typing
                 /\ last_typing_update' = last_typing_update
                 /\ counter' = counter]_vars

\* C24: under any interleaving of the sweep with typing_add calls on the
\* room, the sweep removes no entry whose timeout, as stored when it is
\* removed, has not elapsed.
C24_SweepKeepsRestarted ==
    [][\A t \in TProcs :
         Sweeps(t) => Removed(tp[t].room) \subseteq Expired(typing, tp[t].room)]_vars

\* ===========================================================================
\* Claims about the naming of a room (checked under SpecHeroes)
\* ===========================================================================
\* a hero as its display name, or as its user id when it has none
Rendered(h) == IF h.name = Absent THEN h.user_id ELSE h.name
\* the positions of the membership table whose member is not the requester
\* and is found by the member lookup
Eligible ==
    {i \in DOMAIN hero_world.members :
        /\ hero_world.members[i] # "me"
        /\ hero_world.members[i] \notin hero_world.lookup_fails}
\* the n-th of them
NthEligible(n) ==
    CHOOSE i \in Eligible : Cardinality({j \in Eligible : j < i}) = n - 1

\* C21: without an explicit name and with heroes H: no hero, no name; one
\* hero, the name is H[0]; two or more, the name is join(H[1:], ", ") + " and "
\* + H[0], the first collected hero last.  With an explicit name the room
\* keeps it and has no heroes.
C21_HeroName ==
    hero_response.called
      => LET H == hero_response.heroes
             n == Len(H)
             name == hero_response.name
         IN IF hero_world.room_name # Absent
            THEN name = <<hero_world.room_name>> /\ H = << >>
            ELSE /\ n = 0 => name = << >>
                 /\ n = 1 => name = <<Rendered(H[1])>>
                 /\ n >= 2
                      => name = [k \in 1..(2 * n - 1) |->
                                   IF k = 2 * n - 1 THEN Rendered(H[1])
                                   ELSE IF k = 2 * n - 2 THEN " and "
                                   ELSE IF k % 2 = 1
                                        THEN Rendered(H[(k + 1) \div 2 + 1])
                                   ELSE ", "]

\* C21 witness: a room without a name was named after three or more heroes,
\* the first of which has a display name.
C21_Witness ==
    /\ hero_response.called
    /\ hero_world.room_name = Absent
    /\ Len(hero_response.heroes) >= 3
    /\ hero_response.heroes[1].name # Absent
    /\ hero_response.heroes[2].name = Absent

\* C22: without an explicit name the heroes never contain the requester and
\* are the first min(5, k) of the k members other than the requester whose
\* member lookup succeeds, in the order of the membership table.
C22_HeroesBound ==
    (hero_response.called /\ hero_world.room_name = Absent)
      => LET H == hero_response.heroes
             k == Cardinality(Eligible)
         IN /\ Len(H) = Min(5, k)
            /\ \A i \in 1..Len(H) :
                  /\ H[i].user_id # "me"
                  /\ H[i].user_id = hero_world.members[NthEligible(i)]

\* C22 witness: five heroes out of ten members whose lookup succeeds, in a
\* table that has the requester among them.
C22_Witness ==
    /\ hero_response.called
    /\ hero_world.room_name = Absent
    /\ Cardinality(Eligible) = 10
    /\ \E i \in DOMAIN hero_world.members : hero_world.members[i] = "me"
    /\ Len(hero_response.heroes) = 5

\* ===========================================================================
\* Claims about wait_for_update (checked under SpecNotify)
\* ===========================================================================
\* the step in which wait_for_update returns
WaitReturns == receiver.pc = "waiting" /\ receiver'.pc = "returned"

====
